---- MODULE Spec2Model ----
(***************************************************************************)
(* SignASL scraper and video cache (src/scraper/signasl_scraper.py,        *)
(* src/scraper/video_downloader.py).                                       *)
(*                                                                         *)
(* Strings are sequences of one-character strings, so that lower(),        *)
(* strip(), replace(), endswith() and glob patterns act on characters as   *)
(* the Python code does.  The cache directory is a function from file      *)
(* names to file contents; a name outside its DOMAIN does not exist.       *)
(***************************************************************************)
EXTENDS Integers, Sequences, FiniteSets, TLC

VARIABLES
    files,              \* VideoDownloader.cache_dir: file name -> bytes on disk
    last,               \* record of the last downloader call (arguments, result, effect)
    last_request_time,  \* SignASLScraper.last_request_time
    now,                \* the clock read by time.time()
    fetch,              \* record of the last scraper call
    key,                \* record of the last key computation (normalisation scenario)
    workers,            \* API threads inside SignASLScraper._fetch_page: thread -> position and locals
    issued,             \* the two most recent outbound page requests: when the rate limit let
                        \* each through (limit) and when it went out (at)
    jobs                \* API threads inside VideoDownloader.download_video: thread -> position and locals

vars == <<files, last, last_request_time, now, fetch, key, workers, issued, jobs>>

\* the state of the concurrent request handlers
conc == <<workers, issued, jobs>>

(***************************************************************************)
(* Bounds of the model.                                                    *)
(***************************************************************************)
MaxWordLen == 2     \* longest word enumerated in the key scenario
MaxUrls == 2        \* longest URL list given to download_all_videos
MaxElems == 2       \* most elements of a fetched document
MaxClock == 6       \* ticks of the clock after construction that are modelled
TicksPerSecond == 2 \* resolution of the clock

(***************************************************************************)
(* Python string operations on character sequences.                        *)
(***************************************************************************)
Range(s) == {s[i] : i \in 1..Len(s)}

\* str.lower(), one character
lower_char(c) ==
    CASE c = "A" -> "a"
      [] c = "B" -> "b"
      [] OTHER -> c

\* str.lower()
lower(s) == [i \in 1..Len(s) |-> lower_char(s[i])]

\* str.replace(old, new) for one-character old and new
replace(s, old, new) == [i \in 1..Len(s) |-> IF s[i] = old THEN new ELSE s[i]]

\* the characters str.strip() removes
Whitespace == {" "}

RECURSIVE lstrip(_)
lstrip(s) == IF s # <<>> /\ Head(s) \in Whitespace THEN lstrip(Tail(s)) ELSE s

RECURSIVE rstrip(_)
rstrip(s) ==
    IF s # <<>> /\ s[Len(s)] \in Whitespace
    THEN rstrip(SubSeq(s, 1, Len(s) - 1))
    ELSE s

\* str.strip()
strip(s) == rstrip(lstrip(s))

\* str.endswith(suffix)
endswith(s, suffix) ==
    /\ Len(s) >= Len(suffix)
    /\ SubSeq(s, Len(s) - Len(suffix) + 1, Len(s)) = suffix

\* fnmatch of one path component: "*" matches any run of characters,
\* every other character of the model's alphabet matches itself.
RECURSIVE GlobMatch(_, _)
GlobMatch(pat, name) ==
    IF pat = <<>> THEN name = <<>>
    ELSE IF Head(pat) = "*"
         THEN \/ GlobMatch(Tail(pat), name)
              \/ (name # <<>> /\ GlobMatch(pat, Tail(name)))
         ELSE /\ name # <<>>
              /\ Head(name) = Head(pat)
              /\ GlobMatch(Tail(pat), Tail(name))

DotMp4 == <<".", "m", "p", "4">>

(***************************************************************************)
(* Words, URLs and the cache key.                                          *)
(***************************************************************************)
UrlA == <<"a", ".", "m", "p", "4">>
UrlB == <<"b", ".", "m", "p", "4">>
Urls == {UrlA, UrlB}

\* hashlib.md5(video_url.encode()).hexdigest()[:8], tabulated for the URLs
\* of the model (the values md5 gives for "a.mp4" and "b.mp4").
md5_hex8(video_url) ==
    CASE video_url = UrlA -> <<"2", "a", "1", "f", "2", "8", "8", "0">>
      [] video_url = UrlB -> <<"3", "c", "f", "6", "2", "b", "9", "b">>

\* the word sanitised for a file name
safe_word(word) == replace(replace(lower(word), " ", "_"), "-", "_")

\* a bug _get_cache_filename could have: the URL is left out of the name
_get_cache_filename_nohash(word, video_url) == safe_word(word) \o DotMp4

\* VideoDownloader._get_cache_filename
_get_cache_filename(word, video_url) ==
    safe_word(word) \o <<"_">> \o md5_hex8(video_url) \o DotMp4

\* VideoDownloader._get_cache_path: cache_dir / filename; a path of the flat
\* cache directory is identified with its file name.
_get_cache_path(word, video_url) == _get_cache_filename(word, video_url)

\* SignASLScraper._normalize_word
_normalize_word(word) == replace(strip(lower(word)), " ", "-")

\* Path.exists()
exists(fs, path) == path \in DOMAIN fs

\* Path.unlink()
unlink(fs, path) == [p \in DOMAIN fs \ {path} |-> fs[p]]

\* a bug write_file could have: the file opened in append mode ('ab')
write_file_append(fs, path, bytes) ==
    [p \in DOMAIN fs \cup {path} |->
        IF p = path
        THEN (IF path \in DOMAIN fs THEN fs[path] ELSE <<>>) \o bytes
        ELSE fs[p]]

\* open(path, 'wb') followed by the writes made so far
write_file(fs, path, bytes) ==
    [p \in DOMAIN fs \cup {path} |-> IF p = path THEN bytes ELSE fs[p]]

\* VideoDownloader.is_cached
is_cached(fs, word, video_url) == exists(fs, _get_cache_path(word, video_url))

\* Path.glob(pattern) on the cache directory
glob(fs, pattern) == {p \in DOMAIN fs : GlobMatch(pattern, p)}

(***************************************************************************)
(* The network and the disk as download_video meets them.                  *)
(*   get_raises   requests.get raises (connection error, timeout)          *)
(*   status       the status code of the response                          *)
(*   chunks       the chunks response.iter_content yields, in order        *)
(*   breaks       after the last of `chunks`, iter_content raises          *)
(*                (ChunkedEncodingError, ConnectionError) instead of ending*)
(*   open_raises  open(cache_path, 'wb') raises OSError                    *)
(*   write_raises the index of the chunk whose f.write raises OSError,     *)
(*                0 for none                                               *)
(***************************************************************************)
X == <<"x">>
Y == <<"y">>
E == <<>>       \* a keep-alive chunk: iter_content may yield empty chunks

Bodies == { <<Y>>, <<X, E, Y>> }

Env(g, s, c, b, o, w) ==
    [get_raises |-> g, status |-> s, chunks |-> c, breaks |-> b,
     open_raises |-> o, write_raises |-> w]

DownloadEnvs ==
    {Env(TRUE, 0, <<>>, FALSE, FALSE, 0)}
    \cup {Env(FALSE, 404, <<>>, FALSE, FALSE, 0)}
    \cup {Env(FALSE, 200, <<Y>>, FALSE, TRUE, 0)}
    \cup UNION {{Env(FALSE, 200, SubSeq(b, 1, k), TRUE, FALSE, 0) :
                    k \in 0..Len(b)} : b \in Bodies}
    \cup UNION {{Env(FALSE, 200, b, FALSE, FALSE, w) : w \in 0..Len(b)} :
                    b \in Bodies}

\* a transfer without faults
OkEnv == Env(FALSE, 200, <<Y>>, FALSE, FALSE, 0)

\* Response.raise_for_status: HTTPError for a 4xx or 5xx status
raise_for_status(status) == 400 <= status /\ status < 600

\* results of download_video
PathResult(p) == [kind |-> "path", path |-> p]
NoneResult == [kind |-> "none", path |-> <<>>]
RaisedResult == [kind |-> "raise", path |-> <<>>]

\* a bug cache_hit could have: the cached file is never used
cache_hit_never(fs, cache_path, force) == FALSE

\* the cache check of download_video
cache_hit(fs, cache_path, force) == exists(fs, cache_path) /\ ~force

\* a bug cleanup could have: the partial file is left behind
cleanup_keep(fs, cache_path) ==
    [files |-> fs, result |-> NoneResult, requests |-> 1]

\* the except branch of download_video: remove the file if it exists, None
cleanup(fs, cache_path) ==
    [files |-> IF exists(fs, cache_path) THEN unlink(fs, cache_path) ELSE fs,
     result |-> NoneResult, requests |-> 1]

\* the loop over response.iter_content: the bytes in the file after chunks
\* i..Len(chunks), and whether a write raised
RECURSIVE stream(_, _, _, _)
stream(chunks, i, written, write_raises) ==
    IF i > Len(chunks) THEN [bytes |-> written, raised |-> FALSE]
    ELSE IF chunks[i] # <<>>
         THEN IF write_raises = i
              THEN [bytes |-> written, raised |-> TRUE]
              ELSE stream(chunks, i + 1, written \o chunks[i], write_raises)
         ELSE stream(chunks, i + 1, written, write_raises)

\* VideoDownloader.download_video
download_video(fs, word, video_url, force, env) ==
    LET cache_path == _get_cache_path(word, video_url) IN
    IF cache_hit(fs, cache_path, force)
    THEN [files |-> fs, result |-> PathResult(cache_path), requests |-> 0]
    ELSE IF env.get_raises \/ raise_for_status(env.status)
    THEN cleanup(fs, cache_path)
    ELSE IF env.open_raises
    THEN [files |-> fs, result |-> RaisedResult, requests |-> 1]
    ELSE LET s == stream(env.chunks, 1, <<>>, env.write_raises)
             fs1 == write_file(fs, cache_path, s.bytes)
         IN  IF s.raised
             THEN [files |-> fs1, result |-> RaisedResult, requests |-> 1]
             ELSE IF env.breaks
             THEN cleanup(fs1, cache_path)
             ELSE [files |-> fs1, result |-> PathResult(cache_path),
                   requests |-> 1]

(***************************************************************************)
(* Listing and clearing the cache.                                         *)
(***************************************************************************)
\* the pattern f"{safe_word}_*.mp4"
word_pattern(word) == safe_word(word) \o <<"_", "*">> \o DotMp4

AllPattern == <<"*">> \o DotMp4

\* VideoDownloader.get_cached_videos
get_cached_videos(fs, word) == glob(fs, word_pattern(word))

\* VideoDownloader.list_all_cached
list_all_cached(fs) == glob(fs, AllPattern)

\* An optional word: <<>> is None, <<w>> is the word w.
NoWord == <<>>
SomeWord(w) == <<w>>

\* the pattern clear_cache globs for: the word's, or every .mp4 file
clear_pattern(word) ==
    IF word # NoWord /\ word[1] # <<>>
    THEN word_pattern(word[1])
    ELSE AllPattern

\* the files clear_cache sets out to delete
files_to_delete(fs, word) == glob(fs, clear_pattern(word))

\* the orders in which a directory listing can yield the files of S
Perms(S) ==
    {s \in [1..Cardinality(S) -> S] : \A i, j \in DOMAIN s : s[i] = s[j] => i = j}

\* one of them
SomeOrder(S) == CHOOSE s \in Perms(S) : TRUE

\* a bug delete_loop could have: no try/except around unlink
delete_loop_uncaught(fs, order, locked, count) ==
    LET failing == {i \in DOMAIN order : order[i] \in locked}
        stop == IF failing = {} THEN Len(order) + 1
                ELSE CHOOSE i \in failing : \A j \in failing : i <= j
        done == {order[i] : i \in 1..(stop - 1)}
    IN  [files |-> [p \in DOMAIN fs \ done |-> fs[p]],
         count |-> Cardinality(done), raised |-> failing # {}]

\* the for loop of clear_cache over the files in `order`: unlink and count,
\* or log the exception of a file in `locked` and go on
RECURSIVE delete_loop(_, _, _, _)
delete_loop(fs, order, locked, count) ==
    IF order = <<>>
    THEN [files |-> fs, count |-> count, raised |-> FALSE]
    ELSE IF Head(order) \in locked
         THEN delete_loop(fs, Tail(order), locked, count)
         ELSE delete_loop(unlink(fs, Head(order)), Tail(order), locked,
                          count + 1)

\* VideoDownloader.clear_cache when the directory lists its files in the
\* order `listing`; `locked` are the files whose unlink raises
clear_cache_in(fs, word, locked, listing) ==
    delete_loop(fs,
                SelectSeq(listing, LAMBDA p : GlobMatch(clear_pattern(word), p)),
                locked, 0)

\* VideoDownloader.clear_cache; `locked` are the files whose unlink raises
clear_cache(fs, word, locked) ==
    clear_cache_in(fs, word, locked, SomeOrder(DOMAIN fs))

(***************************************************************************)
(* The downloader, one call at a time.                                     *)
(***************************************************************************)
WordA == <<"a">>
WordUpperA == <<"A">>
WordAB == <<"a", " ", "b">>
CacheWords == {WordA, WordUpperA, WordAB}

NoCall == [op |-> "none"]

\* SignASLScraper(rate_limit_delay=1.0), in ticks
rate_limit_delay == TicksPerSecond

\* time.time() when the scraper is constructed: the wall clock is more than
\* rate_limit_delay past 0, the initial last_request_time
Epoch == rate_limit_delay

\* One call of download_video by a caller that holds no pending result.
DownloadVideo ==
    /\ last = NoCall
    /\ \E word \in CacheWords, video_url \in Urls, force \in BOOLEAN,
       env \in DownloadEnvs :
        LET r == download_video(files, word, video_url, force, env) IN
        /\ files' = r.files
        /\ last' = [op |-> "download_video", word |-> word, url |-> video_url,
                    force |-> force, env |-> env, pre |-> files,
                    result |-> r.result, requests |-> r.requests]
        /\ UNCHANGED <<last_request_time, now, fetch, key, conc>>

\* One call of clear_cache.
ClearCache ==
    /\ last = NoCall
    /\ \E word \in {NoWord} \cup {SomeWord(w) : w \in CacheWords},
       locked \in {{}} \cup {{p} : p \in DOMAIN files} :
        LET r == clear_cache(files, word, locked) IN
        /\ files' = r.files
        /\ last' = [op |-> "clear_cache", word |-> word, locked |-> locked,
                    pre |-> files, count |-> r.count]
        /\ UNCHANGED <<last_request_time, now, fetch, key, conc>>

\* the threads of the server's pool that run the synchronous endpoints
Threads == {"t1", "t2"}

\* a thread that is in no scraper call
\*   clock    the value of time.time() the statement at hand has read
\*   elapsed  the local of _respect_rate_limit
\*   wake     when time.sleep is due to return
\*   stored   the last_request_time the call has stored
IdleWorker == [pc |-> "idle", clock |-> 0, elapsed |-> 0, wake |-> 0, stored |-> 0]

\* a thread that is in no download_video call
\*   force, env  the argument of the call, and the name of the network it
\*               meets
\*   i           the chunk of the response the loop is at
\*   handle      "none", or the file object f of the with block: "file" while
\*               it is the file at cache_path, "orphan" once that file has
\*               been unlinked under it
\*   offset      the position of f
\*   buffer      the bytes written to f that have not reached the file yet
\*   pending     the bytes f.write has still to hand to the file when it
\*               has written the buffer out
\*   result      what the call returned
\*   seen        the file at cache_path at the moment of the return
PendingResult == [kind |-> "pending", path |-> <<>>]
NothingSeen == [exists |-> FALSE, bytes |-> <<>>]
IdleJob ==
    [pc |-> "idle", force |-> FALSE, env |-> "ok", i |-> 0, handle |-> "none",
     offset |-> 0, buffer |-> <<>>, pending |-> <<>>, result |-> PendingResult, seen |-> NothingSeen]

Init ==
    /\ files = << >>
    /\ last = NoCall
    /\ last_request_time = 0
    /\ now = Epoch
    /\ fetch = NoCall
    /\ key = NoCall
    /\ workers = [t \in Threads |-> IdleWorker]
    /\ issued = << >>
    /\ jobs = [t \in Threads |-> IdleJob]

\* The caller has taken the result of the last call.
Return ==
    /\ last # NoCall
    /\ last' = NoCall
    /\ UNCHANGED <<files, last_request_time, now, fetch, key, conc>>

Next == DownloadVideo \/ ClearCache \/ Return

Spec == Init /\ [][Next]_vars

(***************************************************************************)
(* clear_cache with deletions that fail: the cache is filled by downloads  *)
(* without faults and cleared in every order of the directory listing and  *)
(* with every set of undeletable files.                                    *)
(***************************************************************************)
FillCache ==
    /\ last = NoCall
    /\ \E word \in {WordA, WordAB}, video_url \in Urls :
        LET r == download_video(files, word, video_url, FALSE, OkEnv) IN
        /\ files' = r.files
        /\ last' = [op |-> "download_video", word |-> word, url |-> video_url,
                    force |-> FALSE, env |-> OkEnv, pre |-> files,
                    result |-> r.result, requests |-> r.requests]
    /\ UNCHANGED <<last_request_time, now, fetch, key, conc>>

ClearCacheListing ==
    /\ last = NoCall
    /\ \E word \in {NoWord, SomeWord(WordA), SomeWord(WordAB)} :
       \E listing \in Perms(DOMAIN files),
          locked \in SUBSET files_to_delete(files, word) :
        LET r == clear_cache_in(files, word, locked, listing) IN
        /\ files' = r.files
        /\ last' = [op |-> "clear_cache", word |-> word, locked |-> locked,
                    listing |-> listing, pre |-> files, count |-> r.count,
                    raised |-> r.raised]
    /\ UNCHANGED <<last_request_time, now, fetch, key, conc>>

NextClear == FillCache \/ ClearCacheListing \/ Return

SpecClear == Init /\ [][NextClear]_vars

(***************************************************************************)
(* download_all_videos: the downloader, one batch at a time.               *)
(***************************************************************************)
ListResult(paths) == [kind |-> "list", paths |-> paths]
RaisedListResult == [kind |-> "raise", paths |-> <<>>]

\* the for loop of download_all_videos from URL i on; `each` collects the
\* outcome of every download_video call made. An exception of
\* download_video is not caught by the loop and ends the batch.
RECURSIVE download_loop(_, _, _, _, _, _, _, _)
download_loop(fs, word, video_urls, force, envs, i, cached_paths, each) ==
    IF i > Len(video_urls)
    THEN [files |-> fs, result |-> ListResult(cached_paths), each |-> each]
    ELSE LET r == download_video(fs, word, video_urls[i], force, envs[i]) IN
         IF r.result.kind = "raise"
         THEN [files |-> r.files, result |-> RaisedListResult,
               each |-> Append(each, r.result)]
         ELSE download_loop(r.files, word, video_urls, force, envs, i + 1,
                            IF r.result.kind = "path"
                            THEN Append(cached_paths, r.result.path)
                            ELSE cached_paths,
                            Append(each, r.result))

\* VideoDownloader.download_all_videos
download_all_videos(fs, word, video_urls, force, envs) ==
    download_loop(fs, word, video_urls, force, envs, 1, <<>>, <<>>)

\* what the network and the disk do to the downloads of a batch
BatchEnvs ==
    { Env(FALSE, 200, <<Y>>, FALSE, FALSE, 0),
      Env(TRUE, 0, <<>>, FALSE, FALSE, 0),
      Env(FALSE, 200, <<X>>, TRUE, FALSE, 0),
      Env(FALSE, 200, <<Y>>, FALSE, FALSE, 1) }

\* the sequences over S of length n, and of length at most n
SeqsOfLen(S, n) == [1..n -> S]
SeqsUpTo(S, n) == UNION {SeqsOfLen(S, k) : k \in 0..n}

DownloadAllVideos ==
    /\ last = NoCall
    /\ \E video_urls \in SeqsUpTo(Urls, MaxUrls), force \in BOOLEAN :
       \E envs \in SeqsOfLen(BatchEnvs, Len(video_urls)) :
        LET r == download_all_videos(files, WordA, video_urls, force, envs) IN
        /\ files' = r.files
        /\ last' = [op |-> "download_all_videos", word |-> WordA,
                    urls |-> video_urls, force |-> force, envs |-> envs,
                    pre |-> files, result |-> r.result, each |-> r.each]
        /\ UNCHANGED <<last_request_time, now, fetch, key, conc>>

NextBatch == DownloadAllVideos \/ Return

SpecBatch == Init /\ [][NextBatch]_vars

(***************************************************************************)
(* One word downloaded, another word looked up: the cache key of every     *)
(* pair of words over a small alphabet.                                    *)
(***************************************************************************)
Alphabet == {"a", "A", " ", "-"}
Letters == {"a", "A"}

\* the words of at most MaxWordLen characters that hold a letter
Words == {w \in SeqsUpTo(Alphabet, MaxWordLen) : Range(w) \cap Letters # {}}

\* download_video(w1, url) into the empty cache
KeyDownload ==
    /\ key = NoCall
    /\ files = << >>
    /\ \E w1 \in Words, video_url \in Urls :
        LET r == download_video(files, w1, video_url, FALSE, OkEnv) IN
        /\ files' = r.files
        /\ key' = [op |-> "download", w1 |-> w1, url |-> video_url,
                   path |-> r.result.path]
    /\ UNCHANGED <<last, last_request_time, now, fetch, conc>>

\* is_cached(w2, url) and get_cached_videos(w2) after the download under w1
KeyLookup ==
    /\ key.op = "download"
    /\ \E w2 \in Words :
        key' = [op |-> "lookup", w1 |-> key.w1, w2 |-> w2, url |-> key.url,
                path |-> key.path,
                hit |-> is_cached(files, w2, key.url),
                listed |-> get_cached_videos(files, w2)]
    /\ UNCHANGED <<files, last, last_request_time, now, fetch, conc>>

\* clear_cache(w2) after the download under w1
KeyClear ==
    /\ key.op = "download"
    /\ \E w2 \in Words :
        LET r == clear_cache(files, SomeWord(w2), {}) IN
        /\ files' = r.files
        /\ key' = [op |-> "clear", w1 |-> key.w1, w2 |-> w2, url |-> key.url,
                   path |-> key.path, count |-> r.count]
    /\ UNCHANGED <<last, last_request_time, now, fetch, conc>>

\* clear_cache() empties the cache for the next pair of words
KeyClearAll ==
    /\ key.op \in {"lookup", "clear"}
    /\ files' = clear_cache(files, NoWord, {}).files
    /\ key' = NoCall
    /\ UNCHANGED <<last, last_request_time, now, fetch, conc>>

NextKey == KeyDownload \/ KeyLookup \/ KeyClear \/ KeyClearAll

SpecKey == Init /\ [][NextKey]_vars

(***************************************************************************)
(* The scraper.  A fetched document is the sequence of its video and       *)
(* source elements in document order: a video element with the src         *)
(* attributes of the source elements nested in it, or a source element     *)
(* outside any video. A src of <<>> is a missing or empty attribute.       *)
(***************************************************************************)
UrlWebm == <<"c", ".", "w", "e", "b", "m">>

Video(srcs) == [tag |-> "video", srcs |-> srcs]
Source(src) == [tag |-> "source", srcs |-> <<src>>]

Elements ==
    { Video(<<>>), Video(<<UrlA>>), Video(<<UrlWebm>>),
      Video(<<UrlWebm, UrlB>>), Source(UrlB) }

Docs == SeqsUpTo(Elements, MaxElems)

\* soup.find_all('video')
find_all_video(doc) == SelectSeq(doc, LAMBDA e : e.tag = "video")

\* soup.find_all('source'): the src of every source element, nested or not
RECURSIVE find_all_source(_)
find_all_source(doc) ==
    IF doc = <<>> THEN <<>> ELSE Head(doc).srcs \o find_all_source(Tail(doc))

\* the loop of get_video_urls: the src values that end with ".mp4"
mp4_sources(srcs) == SelectSeq(srcs, LAMBDA src : src # <<>> /\ endswith(src, DotMp4))

\* What the site does to one page request.
\*   get_raises    session.get raises (connection error, timeout)
\*   status        the status code of the response
\*   doc           the document of the response body
\*   parse_raises  BeautifulSoup raises on the body
PageEnv(g, s, d, p) ==
    [get_raises |-> g, status |-> s, doc |-> d, parse_raises |-> p]

PageEnvs ==
    { PageEnv(TRUE, 0, <<>>, FALSE),
      PageEnv(FALSE, 404, <<>>, FALSE),
      PageEnv(FALSE, 500, <<>>, FALSE),
      PageEnv(FALSE, 200, <<>>, TRUE) }
    \cup {PageEnv(FALSE, st, d, FALSE) : st \in {200, 304}, d \in Docs}

\* results of the scraper's methods
Value(v) == [kind |-> "value", value |-> v]
NoneValue == [kind |-> "none", value |-> <<>>]
Raised == [kind |-> "raise", value |-> <<>>]

\* a bug _respect_rate_limit could have: it never sleeps
_respect_rate_limit_nosleep(lrt, t, over) ==
    [clock |-> t + over, last_request_time |-> t + over]

\* SignASLScraper._respect_rate_limit, called at clock t; time.sleep and the
\* statements take `over` ticks more than asked. The clock when it returns
\* and the last_request_time it stores.
_respect_rate_limit(lrt, t, over) ==
    LET elapsed == t - lrt
        t1 == (IF elapsed < rate_limit_delay
               THEN t + (rate_limit_delay - elapsed)
               ELSE t) + over
    IN  [clock |-> t1, last_request_time |-> t1]

\* a bug _fetch_page could have: every HTTP error is taken as "not found"
_fetch_page_swallow(env) ==
    IF env.get_raises THEN Raised
    ELSE IF raise_for_status(env.status) THEN NoneValue
    ELSE IF env.parse_raises THEN Raised
    ELSE Value(env.doc)

\* SignASLScraper._fetch_page after the rate limit: the request and the parse
_fetch_page(env) ==
    IF env.get_raises THEN Raised
    ELSE IF raise_for_status(env.status)
         THEN (IF env.status = 404 THEN NoneValue ELSE Raised)
    ELSE IF env.parse_raises THEN Raised
    ELSE Value(env.doc)

\* a bug word_exists could have: no try/except around the fetch
word_exists_uncaught(env) ==
    LET soup == _fetch_page(env) IN
    IF soup.kind = "raise" THEN Raised
    ELSE IF soup.kind = "none" THEN Value(FALSE)
    ELSE Value(Len(find_all_video(soup.value)) > 0)

\* SignASLScraper.word_exists
word_exists(env) ==
    LET soup == _fetch_page(env) IN
    IF soup.kind = "raise" THEN Value(FALSE)
    ELSE IF soup.kind = "none" THEN Value(FALSE)
    ELSE Value(Len(find_all_video(soup.value)) > 0)

\* SignASLScraper.get_video_urls
get_video_urls(env) ==
    LET soup == _fetch_page(env) IN
    IF soup.kind = "raise" THEN Raised
    ELSE IF soup.kind = "none" THEN Value(<<>>)
    ELSE Value(mp4_sources(find_all_source(soup.value)))

\* SignASLScraper.get_video_details: one entry for every video element that
\* has a nested source, with the src of its first source
get_video_details(env) ==
    LET soup == _fetch_page(env) IN
    IF soup.kind = "raise" THEN Raised
    ELSE IF soup.kind = "none" THEN Value(<<>>)
    ELSE LET videos == SelectSeq(find_all_video(soup.value),
                                 LAMBDA v : v.srcs # <<>>)
         IN  Value([k \in 1..Len(videos) |-> [url |-> videos[k].srcs[1]]])

\* SignASLScraper.get_primary_video_url
get_primary_video_url(env) ==
    LET video_urls == get_video_urls(env) IN
    IF video_urls.kind = "raise" THEN Raised
    ELSE IF video_urls.value # <<>> THEN Value(video_urls.value[1])
    ELSE NoneValue

ScraperOps ==
    {"word_exists", "get_video_urls", "get_video_details",
     "get_primary_video_url"}

\* the method `op` of the scraper
call(op, env) ==
    CASE op = "word_exists" -> word_exists(env)
      [] op = "get_video_urls" -> get_video_urls(env)
      [] op = "get_video_details" -> get_video_details(env)
      [] op = "get_primary_video_url" -> get_primary_video_url(env)

\* One call of a scraper method: _fetch_page normalizes the word, waits for
\* its turn, and issues the page request `lag` ticks after the rate limit
\* returned; the method then works on the response.
ScraperCall ==
    /\ fetch = NoCall
    /\ \E op \in ScraperOps, env \in PageEnvs, over \in 0..1, lag \in 0..1 :
        LET rl == _respect_rate_limit(last_request_time, now, over)
            request_time == rl.clock + lag
        IN  /\ request_time <= Epoch + MaxClock
            /\ last_request_time' = rl.last_request_time
            /\ now' = request_time
            /\ fetch' = [op |-> op, page |-> _normalize_word(WordAB),
                         env |-> env, called_at |-> now,
                         prev_limit |-> last_request_time,
                         request_time |-> request_time,
                         result |-> call(op, env)]
    /\ UNCHANGED <<files, last, key, conc>>

\* time passes between two calls
Tick ==
    /\ fetch = NoCall
    /\ now < Epoch + MaxClock
    /\ now' = now + 1
    /\ UNCHANGED <<files, last, last_request_time, fetch, key, conc>>

\* the caller has taken the result of the scraper call
ScraperReturn ==
    /\ fetch # NoCall
    /\ fetch' = NoCall
    /\ UNCHANGED <<files, last, last_request_time, now, key, conc>>

NextScraper == ScraperCall \/ Tick \/ ScraperReturn

SpecScraper == Init /\ [][NextScraper]_vars

(***************************************************************************)
(* Concurrent scraper calls.  The endpoints of api/main.py are plain       *)
(* functions, so the server runs each request on a thread of its pool, and *)
(* all of them call the one module-level scraper.  Each statement of       *)
(* _respect_rate_limit and the request of _fetch_page is one step of the   *)
(* thread that executes it; steps of different threads interleave.         *)
(***************************************************************************)
\* the time.time() of elapsed = time.time() - self.last_request_time
RateClock(t) ==
    /\ workers[t].pc = "idle"
    /\ workers' = [workers EXCEPT ![t] = [IdleWorker EXCEPT !.pc = "read", !.clock = now]]
    /\ UNCHANGED <<files, last, last_request_time, now, fetch, key, issued, jobs>>

\* elapsed = (the time read) - self.last_request_time: the attribute is read
\* after the clock, and may have been stored by another thread since
RateRead(t) ==
    /\ workers[t].pc = "read"
    /\ workers' = [workers EXCEPT ![t] =
                      [IdleWorker EXCEPT !.pc = "check",
                                         !.elapsed = workers[t].clock - last_request_time]]
    /\ UNCHANGED <<files, last, last_request_time, now, fetch, key, issued, jobs>>

\* if elapsed < self.rate_limit_delay: time.sleep(self.rate_limit_delay - elapsed)
RateCheck(t) ==
    /\ workers[t].pc = "check"
    /\ workers' = [workers EXCEPT ![t] =
                      IF workers[t].elapsed < rate_limit_delay
                      THEN [IdleWorker EXCEPT
                                !.pc = "sleep",
                                !.wake = now + (rate_limit_delay - workers[t].elapsed)]
                      ELSE [IdleWorker EXCEPT !.pc = "store"]]
    /\ UNCHANGED <<files, last, last_request_time, now, fetch, key, issued, jobs>>

\* time.sleep returns once the time asked for has passed
RateWake(t) ==
    /\ workers[t].pc = "sleep"
    /\ now >= workers[t].wake
    /\ workers' = [workers EXCEPT ![t] = [IdleWorker EXCEPT !.pc = "store"]]
    /\ UNCHANGED <<files, last, last_request_time, now, fetch, key, issued, jobs>>

\* the time.time() of self.last_request_time = time.time()
RateStamp(t) ==
    /\ workers[t].pc = "store"
    /\ workers' = [workers EXCEPT ![t] = [IdleWorker EXCEPT !.pc = "assign", !.clock = now]]
    /\ UNCHANGED <<files, last, last_request_time, now, fetch, key, issued, jobs>>

\* self.last_request_time = (the time read)
RateStore(t) ==
    /\ workers[t].pc = "assign"
    /\ last_request_time' = workers[t].clock
    /\ workers' = [workers EXCEPT ![t] =
                      [IdleWorker EXCEPT !.pc = "get", !.stored = workers[t].clock]]
    /\ UNCHANGED <<files, last, now, fetch, key, issued, jobs>>

\* response = self.session.get(url, timeout=10): the page request goes out
PageGet(t) ==
    /\ workers[t].pc = "get"
    /\ LET request == [limit |-> workers[t].stored, at |-> now]
       IN  issued' = IF issued = << >> THEN <<request>>
                     ELSE <<issued[Len(issued)], request>>
    /\ workers' = [workers EXCEPT ![t] = IdleWorker]
    /\ UNCHANGED <<files, last, last_request_time, now, fetch, key, jobs>>

Worker(t) ==
    \/ RateClock(t) \/ RateRead(t) \/ RateCheck(t) \/ RateWake(t)
    \/ RateStamp(t) \/ RateStore(t) \/ PageGet(t)

NextWorkers == (\E t \in Threads : Worker(t)) \/ Tick

SpecWorkers == Init /\ [][NextWorkers]_vars

(***************************************************************************)
(* Concurrent download_video calls for one (word, url), hence one cache    *)
(* path.  GET /api/download/{word} is a plain function too, and every      *)
(* thread calls the one module-level downloader.  Each statement of        *)
(* download_video that touches the network or the disk is one step.  The   *)
(* file system is POSIX: open(.., 'wb') truncates the file that is there,  *)
(* every file object has its own position, a write past the end fills the  *)
(* gap with zero bytes, and an open file that is unlinked stays writable   *)
(* but is no longer at the path.  The file object is buffered: what is     *)
(* written to it reaches the file when the buffer overflows or f closes.   *)
(***************************************************************************)
JobPath == _get_cache_path(WordA, UrlB)

\* the buffer of the file object open(cache_path, 'wb') returns: the block
\* size of the file system of the cache directory
BufferSize == 4096

\* a chunk that is larger than the buffer
Block == [k \in 1..(BufferSize + 1) |-> "y"]

\* the networks the concurrent calls meet: transfers that succeed, one of
\* them with a chunk larger than the buffer, one that breaks after its first
\* chunk, and a request that fails
JobEnvNames == {"ok", "large", "breaks", "refused"}

JobEnv(name) ==
    CASE name = "ok" -> OkEnv
      [] name = "large" -> Env(FALSE, 200, <<X, E, Block>>, FALSE, FALSE, 0)
      [] name = "breaks" -> Env(FALSE, 200, <<X>>, TRUE, FALSE, 0)
      [] name = "refused" -> Env(TRUE, 0, <<>>, FALSE, FALSE, 0)

JobEnvs == {JobEnv(name) : name \in JobEnvNames}

Zero == "0"     \* the byte of a hole

\* f.write(chunk) with `buffered` bytes pending: a chunk that fits is added to
\* the buffer; otherwise the buffer is written out, and the chunk is written
\* after it by a write of its own if it is larger than the buffer, and is
\* buffered if not.  `out` is what the first write hands to the file, `rest`
\* what the second does.
f_write(buffered, chunk) ==
    IF Len(buffered) + Len(chunk) <= BufferSize
    THEN [out |-> <<>>, rest |-> <<>>, buffer |-> buffered \o chunk]
    ELSE IF Len(chunk) > BufferSize
    THEN (IF buffered = <<>>
          THEN [out |-> chunk, rest |-> <<>>, buffer |-> <<>>]
          ELSE [out |-> buffered, rest |-> chunk, buffer |-> <<>>])
    ELSE [out |-> buffered, rest |-> <<>>, buffer |-> chunk]

\* the write of `chunk` at position `offset` of a file holding `bytes`
write_at(bytes, offset, chunk) ==
    LET end == offset + Len(chunk)
        len == IF end > Len(bytes) THEN end ELSE Len(bytes)
    IN  [k \in 1..len |->
            IF offset < k /\ k <= end THEN chunk[k - offset]
            ELSE IF k <= Len(bytes) THEN bytes[k]
            ELSE Zero]

\* `out` goes from the file object of `job` to its file, at the position
\* that follows what the file object has written out before
raw_write(fs, job, out) ==
    IF job.handle = "file" /\ out # <<>>
    THEN write_file(fs, JobPath,
                    write_at(fs[JobPath],
                             job.offset - Len(job.buffer) - Len(job.pending), out))
    ELSE fs

\* the file at cache_path as a returning call leaves it to its caller
Seen(fs) ==
    [exists |-> exists(fs, JobPath),
     bytes |-> IF exists(fs, JobPath) THEN fs[JobPath] ELSE <<>>]

\* the call has ended with `result`
Ended(job, result, fs) ==
    [IdleJob EXCEPT !.pc = "done", !.force = job.force, !.env = job.env,
                    !.result = result, !.seen = Seen(fs)]

\* a thread enters download_video for (word, url); the page request of its
\* endpoint is behind it
JobCall(t) ==
    /\ jobs[t].pc = "idle"
    /\ \E force \in BOOLEAN, env \in JobEnvNames :
        jobs' = [jobs EXCEPT ![t] =
                    [IdleJob EXCEPT !.pc = "check", !.force = force, !.env = env]]
    /\ UNCHANGED <<files, last, last_request_time, now, fetch, key, workers, issued>>

\* if cache_path.exists() and not force
JobCheck(t) ==
    /\ jobs[t].pc = "check"
    /\ jobs' = [jobs EXCEPT ![t].pc =
                    IF cache_hit(files, JobPath, jobs[t].force) THEN "hit" ELSE "get"]
    /\ UNCHANGED <<files, last, last_request_time, now, fetch, key, workers, issued>>

\* logger.info(...already cached...); return str(cache_path)
JobHit(t) ==
    /\ jobs[t].pc = "hit"
    /\ jobs' = [jobs EXCEPT ![t] = Ended(jobs[t], PathResult(JobPath), files)]
    /\ UNCHANGED <<files, last, last_request_time, now, fetch, key, workers, issued>>

\* response = requests.get(...); response.raise_for_status()
JobGet(t) ==
    /\ jobs[t].pc = "get"
    /\ jobs' = [jobs EXCEPT ![t].pc =
                    IF JobEnv(jobs[t].env).get_raises \/ raise_for_status(JobEnv(jobs[t].env).status)
                    THEN "except" ELSE "open"]
    /\ UNCHANGED <<files, last, last_request_time, now, fetch, key, workers, issued>>

\* with open(cache_path, 'wb') as f
JobOpen(t) ==
    /\ jobs[t].pc = "open"
    /\ IF JobEnv(jobs[t].env).open_raises
       THEN /\ jobs' = [jobs EXCEPT ![t] = Ended(jobs[t], RaisedResult, files)]
            /\ files' = files
       ELSE /\ files' = write_file(files, JobPath, <<>>)
            /\ jobs' = [jobs EXCEPT ![t] =
                            [jobs[t] EXCEPT !.pc = "write", !.i = 1,
                                            !.handle = "file", !.offset = 0,
                                            !.buffer = <<>>]]
    /\ UNCHANGED <<last, last_request_time, now, fetch, key, workers, issued>>

\* one turn of `for chunk in response.iter_content(...)`: the iteration ends
\* or raises and the with block closes f, which writes its buffer out, or a
\* chunk is written to f, up to the first write to the file
JobWrite(t) ==
    /\ jobs[t].pc = "write"
    /\ LET job == jobs[t]
           env == JobEnv(job.env)
           chunks == env.chunks
       IN  IF job.i > Len(chunks)
           THEN /\ jobs' = [jobs EXCEPT ![t] =
                                [job EXCEPT !.pc = IF env.breaks THEN "except"
                                                   ELSE "stat",
                                            !.handle = "none", !.buffer = <<>>]]
                /\ files' = raw_write(files, job, job.buffer)
           ELSE IF chunks[job.i] = <<>>
           THEN /\ jobs' = [jobs EXCEPT ![t].i = job.i + 1]
                /\ files' = files
           ELSE IF env.write_raises = job.i
           THEN /\ files' = raw_write(files, job, job.buffer)
                /\ jobs' = [jobs EXCEPT ![t] = Ended(job, RaisedResult, files')]
           ELSE LET w == f_write(job.buffer, chunks[job.i]) IN
                /\ jobs' = [jobs EXCEPT ![t] =
                                [job EXCEPT !.pc = IF w.rest = <<>> THEN "write"
                                                   ELSE "flushed",
                                            !.i = job.i + 1,
                                            !.offset = job.offset + Len(chunks[job.i]),
                                            !.buffer = w.buffer,
                                            !.pending = w.rest]]
                /\ files' = raw_write(files, job, w.out)
    /\ UNCHANGED <<last, last_request_time, now, fetch, key, workers, issued>>

\* the second write to the file of an f.write(chunk) that has written the
\* buffer out: the chunk itself
JobWriteRest(t) ==
    /\ jobs[t].pc = "flushed"
    /\ files' = raw_write(files, jobs[t], jobs[t].pending)
    /\ jobs' = [jobs EXCEPT ![t] = [jobs[t] EXCEPT !.pc = "write", !.pending = <<>>]]
    /\ UNCHANGED <<last, last_request_time, now, fetch, key, workers, issued>>

\* file_size = cache_path.stat().st_size: FileNotFoundError if it is gone
JobStat(t) ==
    /\ jobs[t].pc = "stat"
    /\ jobs' = [jobs EXCEPT ![t] =
                    IF exists(files, JobPath)
                    THEN [jobs[t] EXCEPT !.pc = "return"]
                    ELSE Ended(jobs[t], RaisedResult, files)]
    /\ UNCHANGED <<files, last, last_request_time, now, fetch, key, workers, issued>>

\* return str(cache_path) after the download
JobReturn(t) ==
    /\ jobs[t].pc = "return"
    /\ jobs' = [jobs EXCEPT ![t] = Ended(jobs[t], PathResult(JobPath), files)]
    /\ UNCHANGED <<files, last, last_request_time, now, fetch, key, workers, issued>>

\* except RequestException: if cache_path.exists()
JobExcept(t) ==
    /\ jobs[t].pc = "except"
    /\ jobs' = [jobs EXCEPT ![t] =
                    IF exists(files, JobPath)
                    THEN [jobs[t] EXCEPT !.pc = "unlink"]
                    ELSE Ended(jobs[t], NoneResult, files)]
    /\ UNCHANGED <<files, last, last_request_time, now, fetch, key, workers, issued>>

\* cache_path.unlink(); return None.  The file objects open on the file keep
\* it, away from the path; FileNotFoundError if the file is gone already.
JobUnlink(t) ==
    /\ jobs[t].pc = "unlink"
    /\ IF exists(files, JobPath)
       THEN /\ files' = unlink(files, JobPath)
            /\ jobs' = [u \in Threads |->
                            IF u = t THEN Ended(jobs[t], NoneResult, files')
                            ELSE IF jobs[u].handle = "file"
                            THEN [jobs[u] EXCEPT !.handle = "orphan"]
                            ELSE jobs[u]]
       ELSE /\ files' = files
            /\ jobs' = [jobs EXCEPT ![t] = Ended(jobs[t], RaisedResult, files)]
    /\ UNCHANGED <<last, last_request_time, now, fetch, key, workers, issued>>

\* the caller has the result; the thread may enter download_video again
JobDone(t) ==
    /\ jobs[t].pc = "done"
    /\ jobs' = [jobs EXCEPT ![t] = IdleJob]
    /\ UNCHANGED <<files, last, last_request_time, now, fetch, key, workers, issued>>

Job(t) ==
    \/ JobCall(t) \/ JobCheck(t) \/ JobHit(t) \/ JobGet(t) \/ JobOpen(t)
    \/ JobWrite(t) \/ JobWriteRest(t)
    \/ JobStat(t) \/ JobReturn(t) \/ JobExcept(t) \/ JobUnlink(t) \/ JobDone(t)

NextJobs == \E t \in Threads : Job(t)

SpecJobs == Init /\ [][NextJobs]_vars

(***************************************************************************)
(* Properties of download_video and clear_cache.                           *)
(***************************************************************************)
IsDownload == last.op = "download_video"

LastPath == _get_cache_path(last.word, last.url)

\* all the bytes of a sequence of chunks
RECURSIVE Concat(_)
Concat(chunks) ==
    IF chunks = <<>> THEN <<>> ELSE Head(chunks) \o Concat(Tail(chunks))

\* the disk fails: open raises OSError, or the write of a chunk does
DiskFailed(env) ==
    /\ ~env.get_raises
    /\ env.status \notin 400..599
    /\ \/ env.open_raises
       \/ /\ env.write_raises \in 1..Len(env.chunks)
          /\ env.chunks[env.write_raises] # <<>>

\* the transport fails: requests.get raises, the status is an HTTP error,
\* or the stream breaks while it is written to the file
TransportFailed(env) ==
    \/ env.get_raises
    \/ env.status \in 400..599
    \/ (env.breaks /\ ~DiskFailed(env))

\* C1: a download_video call that returns a path leaves a file at that path,
\* having made one request if the file was not there before; and a call
\* with force=False that finds the file at its path makes no request,
\* returns that same path and leaves the cache as it was. So of two calls
\* in a row, the first successful, only the first transfers.
C1_IdempotentDownload ==
    IsDownload =>
        /\ last.result.kind = "path" =>
              /\ last.result.path = LastPath
              /\ exists(files, LastPath)
              /\ (~exists(last.pre, LastPath) => last.requests = 1)
        /\ (~last.force /\ exists(last.pre, LastPath)) =>
              /\ last.requests = 0
              /\ last.result = PathResult(LastPath)
              /\ files = last.pre

\* C1 witness: a second, unforced call finds the complete file of an
\* earlier transfer
C1_Witness ==
    /\ IsDownload
    /\ ~last.force
    /\ exists(last.pre, LastPath)
    /\ last.pre[LastPath] = Concat(<<X, E, Y>>)
    /\ last.requests = 0

\* C2: when the transport of a started transfer fails (the request raises,
\* the status is an HTTP error, or the stream breaks), with or without a
\* file cached before, the call returns None and no file is left at the
\* cache path.
C2_FailureCleanup ==
    (IsDownload /\ last.requests = 1 /\ TransportFailed(last.env)) =>
        /\ last.result = NoneResult
        /\ ~exists(files, LastPath)

\* C2 witness: a forced re-download of a cached file breaks in mid-stream
C2_Witness ==
    /\ IsDownload
    /\ last.force
    /\ exists(last.pre, LastPath)
    /\ last.env.breaks
    /\ Concat(last.env.chunks) # <<>>
    /\ last.result = NoneResult

\* C3: no exception escapes download_video, and every call that does not
\* return a path (any error, of the transport or of the disk) returns None
\* and leaves no file at the cache path.
C3_AnyErrorCleansUp ==
    IsDownload =>
        /\ last.result.kind \in {"path", "none"}
        /\ (TransportFailed(last.env) \/ DiskFailed(last.env)) /\ last.requests = 1
              => (last.result = NoneResult /\ ~exists(files, LastPath))

\* the cache files of a word: its file name for every URL
FilesOfWord(w) == {_get_cache_filename(w, u) : u \in Urls}

\* C5: clear_cache(word=w) deletes exactly the cache files of w, returns
\* their number and leaves every other file as it was.
C5_ClearScoped ==
    (last.op = "clear_cache" /\ last.word # NoWord /\ last.locked = {}) =>
        LET own == FilesOfWord(last.word[1]) IN
        /\ \A p \in DOMAIN last.pre \ own :
              p \in DOMAIN files /\ files[p] = last.pre[p]
        /\ DOMAIN files \cap own = {}
        /\ last.count = Cardinality(DOMAIN last.pre \cap own)

\* C6: download_video with force=True always makes a request; when neither
\* the transport nor the disk fails, it returns the cache path and the file
\* there holds exactly the bytes of this transfer.
C6_ForcedRedownload ==
    (IsDownload /\ last.force) =>
        /\ last.requests = 1
        /\ (~TransportFailed(last.env) /\ ~DiskFailed(last.env)) =>
              /\ last.result = PathResult(LastPath)
              /\ exists(files, LastPath)
              /\ files[LastPath] = Concat(last.env.chunks)

\* C6 witness: a forced re-download replaces different earlier bytes
C6_Witness ==
    /\ IsDownload
    /\ last.force
    /\ exists(last.pre, LastPath)
    /\ last.result.kind = "path"
    /\ last.pre[LastPath] # <<>>
    /\ files[LastPath] # last.pre[LastPath]

(***************************************************************************)
(* Properties of download_all_videos.                                      *)
(***************************************************************************)
\* the paths among the results of the download_video calls, in order
RECURSIVE PathsOf(_)
PathsOf(each) ==
    IF each = <<>> THEN <<>>
    ELSE (IF Head(each).kind = "path" THEN <<Head(each).path>> ELSE <<>>)
         \o PathsOf(Tail(each))

\* C7: download_all_videos attempts every URL of the list, whatever
\* happened to the earlier ones, and returns the paths of the downloads
\* that succeeded, in input order; no failure aborts the batch.
C7_BatchPartialSuccess ==
    last.op = "download_all_videos" =>
        /\ Len(last.each) = Len(last.urls)
        /\ last.result = ListResult(PathsOf(last.each))

(***************************************************************************)
(* Properties of the cache key.                                            *)
(***************************************************************************)
SameNormalized == _normalize_word(key.w1) = _normalize_word(key.w2)

\* C4: two words that _normalize_word maps to the same string have the same
\* cache file name for every URL, so that a video downloaded under one is
\* cached, listed and cleared under the other.
C4_SameKeyForSameNormalization ==
    /\ (key.op \in {"lookup", "clear"} /\ SameNormalized) =>
          _get_cache_filename(key.w1, key.url)
              = _get_cache_filename(key.w2, key.url)
    /\ (key.op = "lookup" /\ SameNormalized) =>
          (key.hit /\ key.path \in key.listed)
    /\ (key.op = "clear" /\ SameNormalized) =>
          (key.count = 1 /\ ~exists(files, key.path))

(***************************************************************************)
(* Properties of the scraper.                                              *)
(***************************************************************************)
\* the page request failed: no response, or an HTTP error status
RetrievalError(env) == env.get_raises \/ env.status \in 400..599

\* C8: word_exists never raises; it returns False when the page is not
\* found or any retrieval or parse error occurs, and otherwise True exactly
\* when the document has a video element, whatever its sources are.
C8_WordExistsNeverRaises ==
    fetch.op = "word_exists" =>
        /\ fetch.result.kind = "value"
        /\ fetch.result.value =
              (/\ ~RetrievalError(fetch.env)
               /\ ~fetch.env.parse_raises
               /\ \E k \in 1..Len(fetch.env.doc) :
                      fetch.env.doc[k].tag = "video")

\* C8 witness: word_exists is True for a document for which get_video_urls
\* returns the empty list
C8_Witness ==
    /\ fetch.op = "word_exists"
    /\ fetch.result = Value(TRUE)
    /\ get_video_urls(fetch.env) = Value(<<>>)

IsUrlListing == fetch.op \in {"get_video_urls", "get_primary_video_url"}

\* what get_video_urls and get_primary_video_url return for no video
EmptyResult == IF fetch.op = "get_video_urls" THEN Value(<<>>) ELSE NoneValue

\* C9 as claimed: the empty result on 404, and the retrieval error
\* propagated for a transport failure and for every other status outside
\* 200..299.
C9_NonSuccessPropagates ==
    IsUrlListing =>
        /\ (~fetch.env.get_raises /\ fetch.env.status = 404) =>
              fetch.result = EmptyResult
        /\ (fetch.env.get_raises
              \/ (fetch.env.status \notin 200..299 /\ fetch.env.status # 404)) =>
              fetch.result = Raised

\* C9 amended: the empty result on 404, the retrieval error propagated for
\* a transport failure and for every other 4xx or 5xx status; a response
\* of any other status is parsed as a success is.
C9_ErrorStatusPropagates ==
    IsUrlListing =>
        /\ (~fetch.env.get_raises /\ fetch.env.status = 404) =>
              fetch.result = EmptyResult
        /\ (fetch.env.get_raises
              \/ (fetch.env.status \in 400..599 /\ fetch.env.status # 404)) =>
              fetch.result = Raised
        /\ (~RetrievalError(fetch.env) /\ ~fetch.env.parse_raises) =>
              fetch.result.kind # "raise"

\* C9 witness: a 500 response makes get_primary_video_url raise
C9_Witness ==
    /\ fetch.op = "get_primary_video_url"
    /\ fetch.env.status = 500
    /\ fetch.result = Raised

\* C10: last_request_time never decreases, and every page request of a
\* scraper call is issued after that call's rate limit returned and at
\* least rate_limit_delay after the previous rate limit returned.
C10_RateLimit ==
    [][/\ last_request_time' >= last_request_time
       /\ (fetch = NoCall /\ fetch' # NoCall) =>
             /\ fetch'.request_time >= last_request_time'
             /\ fetch'.request_time >= last_request_time + rate_limit_delay]_vars

\* C10 witness: a call made less than rate_limit_delay after the previous
\* rate limit returned
C10_Witness ==
    /\ fetch # NoCall
    /\ fetch.prev_limit > 0
    /\ fetch.called_at - fetch.prev_limit < rate_limit_delay

(***************************************************************************)
(* Properties of clear_cache with failing deletions.                       *)
(***************************************************************************)
\* C11: clear_cache raises nothing; every file it set out to delete whose
\* deletion does not fail is deleted, also after a deletion that failed;
\* the files whose deletion failed stay; and the count returned is the
\* number of files that were deleted.
C11_ClearContinues ==
    last.op = "clear_cache" =>
        LET matching == files_to_delete(last.pre, last.word) IN
        /\ ~last.raised
        /\ DOMAIN files = DOMAIN last.pre \ (matching \ last.locked)
        /\ last.count = Cardinality(DOMAIN last.pre \ DOMAIN files)
        /\ last.count = Cardinality(matching \ last.locked)

\* C11 witness: the first deletion fails and a later file is deleted
C11_Witness ==
    /\ last.op = "clear_cache"
    /\ last.word = SomeWord(WordAB)
    /\ \E i, j \in DOMAIN last.listing :
          /\ i < j
          /\ last.listing[i] \in last.locked
          /\ last.listing[j] \in files_to_delete(last.pre, last.word)
          /\ ~exists(files, last.listing[j])
    /\ last.count = 1

(***************************************************************************)
(* Properties of the cache file names of a batch.                          *)
(***************************************************************************)
\* s begins with prefix
startswith(s, prefix) ==
    Len(s) >= Len(prefix) /\ SubSeq(s, 1, Len(prefix)) = prefix

\* C12: in a batch for one word, every download that succeeds returns the
\* file name made of the word's prefix and the URL's hash; two downloads of
\* the same URL return the same name and two downloads of different URLs
\* return different names, each naming a file of the cache.
C12_DistinctNamesPerUrl ==
    last.op = "download_all_videos" =>
        \A i, j \in DOMAIN last.each :
            (last.each[i].kind = "path" /\ last.each[j].kind = "path") =>
                /\ startswith(last.each[i].path, safe_word(last.word) \o <<"_">>)
                /\ endswith(last.each[i].path, DotMp4)
                /\ Len(last.each[i].path) = Len(safe_word(last.word)) + 13
                /\ (last.urls[i] = last.urls[j])
                      <=> (last.each[i].path = last.each[j].path)

\* C12 witness: a batch of two different URLs leaves two files
C12_Witness ==
    /\ last.op = "download_all_videos"
    /\ last.pre = << >>
    /\ last.result.kind = "list"
    /\ Len(last.result.paths) = 2
    /\ last.result.paths[1] # last.result.paths[2]
    /\ DOMAIN files = {last.result.paths[1], last.result.paths[2]}

(***************************************************************************)
(* Properties of the cache listings.                                       *)
(***************************************************************************)
\* C13: when download_video(word, url) has returned a path, is_cached(word,
\* url) is True, the path is in get_cached_videos(word) and in
\* list_all_cached(), and get_cached_videos(word) holds no file of another
\* word.
C13_ListingConsistency ==
    (IsDownload /\ last.result.kind = "path") =>
        /\ is_cached(files, last.word, last.url)
        /\ last.result.path \in get_cached_videos(files, last.word)
        /\ last.result.path \in list_all_cached(files)
        /\ get_cached_videos(files, last.word) \subseteq FilesOfWord(last.word)

(***************************************************************************)
(* C14: when several API requests run concurrently against the one shared  *)
(* scraper, no two outbound page requests are issued less than             *)
(* rate_limit_delay apart, in any interleaving.  The interval is measured  *)
(* as in sequential use, from the moment the rate limit let the earlier    *)
(* request through to the moment the later request goes out; requests that *)
(* are rate_limit_delay apart are at least that far apart in this measure. *)
(***************************************************************************)
C14_MinIntervalConcurrent ==
    Len(issued) = 2 => issued[2].at - issued[1].limit >= rate_limit_delay

(***************************************************************************)
(* C15: in every interleaving of concurrent download_video calls for the   *)
(* same (word, url), at most one call writes or deletes the cache file at  *)
(* a time, and a path that download_video returns refers, at the moment of *)
(* the return, to an existing file holding the complete bytes of a         *)
(* successful transfer.                                                    *)
(***************************************************************************)
\* the call of thread t has the cache file open for writing; it is about to
\* unlink it
Writing(t) == jobs[t].pc \in {"write", "flushed"}
Deleting(t) == jobs[t].pc = "unlink"

\* the bodies of the transfers that succeed
CompleteTransfers ==
    {Concat(e.chunks) : e \in {e \in JobEnvs : ~e.breaks /\ ~e.get_raises}}

C15_OneWriter ==
    \A t, u \in Threads :
        (Writing(t) \/ Deleting(t)) /\ (Writing(u) \/ Deleting(u)) => t = u

C15_ReturnedComplete ==
    \A t \in Threads :
        (jobs[t].pc = "done" /\ jobs[t].result.kind = "path") =>
            /\ jobs[t].seen.exists
            /\ jobs[t].seen.bytes \in CompleteTransfers

C15_ExclusiveCompleteFile == C15_OneWriter /\ C15_ReturnedComplete

====
